---- MODULE Spec2Model ----
(***************************************************************************)
(* Model of language_models/agent/workflow.py: a linear workflow of        *)
(* function, transformation and agent (LLM) steps threading one state      *)
(* mapping through the run.                                                *)
(*                                                                         *)
(* Python values are tagged records [t |-> tag, v |-> payload sequence].   *)
(* A Python dict with string keys that is used as a state / kwargs mapping *)
(* is a function from Keys to values, Absent marking a key that is not in  *)
(* the dict.  A dict held as a collection value keeps insertion order: it  *)
(* is a sequence of <<key, value>> pairs with distinct keys.               *)
(***************************************************************************)
EXTENDS Integers, Sequences, FiniteSets, TLC

\* ------------------------------------------------------------------ bounds
MaxSteps == 3

\* ------------------------------------------------------------------ values
Absent == [t |-> "absent", v |-> <<>>]
PyNone == [t |-> "none", v |-> <<>>]
PyInt(n) == [t |-> "int", v |-> <<n>>]
PyBool(b) == [t |-> "bool", v |-> <<b>>]
PyStr(cs) == [t |-> "str", v |-> cs]
PyList(es) == [t |-> "list", v |-> es]
PyTuple(es) == [t |-> "tuple", v |-> es]
PyDict(ps) == [t |-> "dict", v |-> ps]
Mapping(f) == [t |-> "mapping", v |-> f]
Raise(e) == [t |-> "raise", v |-> <<e>>]

IsRaise(x) == x.t = "raise"

\* Names that can be keys of the inputs / state mapping.
Keys == {"n", "xs", "m", "s", "t", "q"}

EmptyMapping == [k \in Keys |-> Absent]

KeysOf(d) == {k \in Keys : d[k] # Absent}

\* d.get(k): the value at k, None when k is not in d.
DictGet(d, k) == IF d[k] = Absent THEN PyNone ELSE d[k]

\* Python truth value of an object.
Truthy(x) ==
  CASE x.t = "bool" -> x.v[1]
    [] x.t = "int" -> x.v[1] # 0
    [] x.t = "none" -> FALSE
    [] OTHER -> Len(x.v) > 0

\* The elements Python's iteration protocol yields for an object: the
\* elements of a list or tuple, the KEYS of a dict, the characters of a str.
Iterable(x) == x.t \in {"list", "tuple", "dict", "str"}

Iter(x) ==
  CASE x.t \in {"list", "tuple"} -> x.v
    [] x.t = "dict" -> [j \in 1..Len(x.v) |-> x.v[j][1]]
    [] x.t = "str" -> [j \in 1..Len(x.v) |-> PyStr(<<x.v[j]>>)]

\* x[j] for a 0-based Python index j on a sequence-like object.
Subscript(x, j) ==
  CASE x.t \in {"list", "tuple"} ->
         IF j + 1 <= Len(x.v) THEN x.v[j + 1] ELSE Raise("IndexError")
    [] x.t = "str" ->
         IF j + 1 <= Len(x.v) THEN PyStr(<<x.v[j + 1]>>) ELSE Raise("IndexError")
    [] x.t = "dict" -> Raise("KeyError")
    [] OTHER -> Raise("TypeError")

\* ------------------------------------------------- the callables of a step
\* Functions a transformation step can be declared with (its `function`):
\*   inc       lambda x: x + 1
\*   gt1       lambda x: x > 1
\*   pair_inc  lambda kv: (kv[0], kv[1] + 1)
\*   pair_gt1  lambda kv: kv[1] > 1
\*   key_zero  lambda k: (k, 0)
\*   always    lambda x: True
\*   add       lambda a, b: a + b
\*   sub       lambda a, b: a - b
PyAddOne(x) == IF x.t = "int" THEN PyInt(x.v[1] + 1) ELSE Raise("TypeError")

PyGtOne(x) == IF x.t = "int" THEN PyBool(x.v[1] > 1) ELSE Raise("TypeError")

PyAdd(a, b) ==
  CASE a.t = "int" /\ b.t = "int" -> PyInt(a.v[1] + b.v[1])
    [] a.t = b.t /\ a.t \in {"str", "list", "tuple"} -> [t |-> a.t, v |-> a.v \o b.v]
    [] OTHER -> Raise("TypeError")

PySub(a, b) ==
  IF a.t = "int" /\ b.t = "int" THEN PyInt(a.v[1] - b.v[1]) ELSE Raise("TypeError")

Arity(f) == IF f \in {"add", "sub"} THEN 2 ELSE 1

\* f(*args): the value returned, or Raise(e) when the call raises e.
Apply(f, args) ==
  IF Len(args) # Arity(f) THEN Raise("TypeError")
  ELSE LET x == args[1] IN
  CASE f = "inc" -> PyAddOne(x)
    [] f = "gt1" -> PyGtOne(x)
    [] f = "pair_inc" ->
         LET k == Subscript(x, 0)
             w == Subscript(x, 1)
         IN IF IsRaise(k) THEN k
            ELSE IF IsRaise(w) THEN w
            ELSE IF IsRaise(PyAddOne(w)) THEN PyAddOne(w)
            ELSE PyTuple(<<k, PyAddOne(w)>>)
    [] f = "pair_gt1" ->
         LET w == Subscript(x, 1)
         IN IF IsRaise(w) THEN w ELSE PyGtOne(w)
    [] f = "key_zero" -> PyTuple(<<x, PyInt(0)>>)
    [] f = "always" -> PyBool(TRUE)
    [] f = "add" -> PyAdd(args[1], args[2])
    [] f = "sub" -> PySub(args[1], args[2])

\* Functions a function step can be declared with, called as f(**kwargs):
\*   succ  def succ(n): return n + 1
\*   pick  def pick(s=None, n=None): return s
\*   fail  def fail(): raise RuntimeError
Params(f) ==
  CASE f = "succ" -> {"n"}
    [] f = "pick" -> {"s", "n"}
    [] f = "fail" -> {}

Required(f) ==
  CASE f = "succ" -> {"n"}
    [] f = "pick" -> {}
    [] f = "fail" -> {}

Call(f, kwargs) ==
  IF ~(KeysOf(kwargs) \subseteq Params(f)) \/ ~(Required(f) \subseteq KeysOf(kwargs))
  THEN Raise("TypeError")
  ELSE CASE f = "succ" -> PyAddOne(kwargs["n"])
         [] f = "pick" -> IF kwargs["s"] = Absent THEN PyNone ELSE kwargs["s"]
         [] f = "fail" -> Raise("RuntimeError")

\* --------------------------------------------------------- pydantic models
\* The declared type of WorkflowStepOutput.output / WorkflowOutput.output:
\*   str | int | float | dict[str, Any] | BaseModel | list[str] | list[int]
\*   | list[float] | list[dict[str, Any]] | list[BaseModel] | None
\* Constructing the model validates the value against this union: the result
\* is the value as stored in the model, or Raise("ValidationError").  A bool
\* matches no member exactly and is taken as an int; a tuple is taken as a
\* list; a list must be homogeneous (all str, all int, or all dict).
StrKeyed(x) == x.t = "dict" /\ \A j \in 1..Len(x.v) : x.v[j][1].t = "str"

BoolAsInt(x) == IF x.t = "bool" THEN PyInt(IF x.v[1] THEN 1 ELSE 0) ELSE x

ValidateOutput(x) ==
  CASE x.t \in {"none", "str", "int", "mapping"} -> x
    [] x.t = "bool" -> BoolAsInt(x)
    [] x.t = "dict" -> IF StrKeyed(x) THEN x ELSE Raise("ValidationError")
    [] x.t \in {"list", "tuple"} ->
         IF \A j \in 1..Len(x.v) : x.v[j].t = "str" THEN PyList(x.v)
         ELSE IF \A j \in 1..Len(x.v) : x.v[j].t \in {"int", "bool"}
              THEN PyList([j \in 1..Len(x.v) |-> BoolAsInt(x.v[j])])
         ELSE IF \A j \in 1..Len(x.v) : StrKeyed(x.v[j]) THEN PyList(x.v)
         ELSE Raise("ValidationError")
    [] OTHER -> Raise("ValidationError")

\* Step(name=..., content=...) of language_models.agent.agent: one entry of a
\* trace, carrying the recorded value as it is.
Step(name, content) == [name |-> name, content |-> content]

\* WorkflowStep with WorkflowStepName.FUNCTION for every variant.
WorkflowStepOfOneKind(kind, steps) == [name |-> "function", steps |-> steps]

\* WorkflowStep(name=kind, steps=[...]): the trace record of one step.
WorkflowStep(kind, steps) == [name |-> kind, steps |-> steps]

NoWorkflowStep == WorkflowStep("none", <<>>)

\* The outcome of a step's invoke: raised = "" and a WorkflowStepOutput
\* (inputs, output, step), or raised = the exception.  calls lists, in order,
\* the argument tuples the step's function or agent was called with.
WorkflowStepOutput(inputs, output, step, calls) ==
  IF IsRaise(ValidateOutput(output))
  THEN [raised |-> "ValidationError", inputs |-> EmptyMapping, output |-> PyNone,
        step |-> NoWorkflowStep, calls |-> calls]
  ELSE [raised |-> "", inputs |-> inputs, output |-> ValidateOutput(output),
        step |-> step, calls |-> calls]

StepRaised(e, calls) ==
  [raised |-> e, inputs |-> EmptyMapping, output |-> PyNone,
   step |-> NoWorkflowStep, calls |-> calls]

\* ----------------------------------------------------------------- logging
\* if verbose: logger.opt(colors=True).info(f"...{value}")
\* With colors=True loguru parses the whole message for colour markup, the
\* interpolated value included: a "<tag>" in it that is not a colour
\* directive makes the call raise ValueError.  The characters cs[i..j] are
\* such a tag when they are "<", then neither "<", ">" nor a blank, then ">".
\* (The step names and the tags of the messages themselves are well formed.)
IsTag(cs, i, j) ==
  /\ i < j
  /\ cs[i] = "<"
  /\ cs[j] = ">"
  /\ \A k \in (i + 1)..(j - 1) : cs[k] \notin {"<", ">", " "}

RECURSIVE HasMarkup(_)
HasMarkup(x) ==
  CASE x.t = "str" -> \E i, j \in 1..Len(x.v) : IsTag(x.v, i, j)
    [] x.t \in {"list", "tuple"} -> \E j \in 1..Len(x.v) : HasMarkup(x.v[j])
    [] x.t = "dict" ->
         \E j \in 1..Len(x.v) : HasMarkup(x.v[j][1]) \/ HasMarkup(x.v[j][2])
    [] x.t = "mapping" -> \E k \in Keys : HasMarkup(x.v[k])
    [] OTHER -> FALSE

LogRaises(verbose, value) == verbose /\ HasMarkup(value)

\* ----------------------------------------------------- WorkflowFunctionStep
\* A step is a record [kind, name, inputs, function, input_field,
\* transformation, agent]; a field a variant does not have is left empty.

\* lines 72-89, with `inputs` the mapping the step selected and `output` what
\* self.function(**inputs) gives: the inputs are logged, the function is
\* called, its output is logged, the WorkflowStepOutput is built.
WorkflowFunctionStepReturn(inputs, output, verbose) ==
  IF LogRaises(verbose, Mapping(inputs)) THEN StepRaised("ValueError", <<>>)
  ELSE IF IsRaise(output) THEN StepRaised(output.v[1], <<<<Mapping(inputs)>>>>)
  ELSE IF LogRaises(verbose, output)
       THEN StepRaised("ValueError", <<<<Mapping(inputs)>>>>)
  ELSE WorkflowStepOutput(inputs, output,
         WorkflowStep("function",
           <<Step("inputs", Mapping(inputs)), Step("output", output)>>),
         <<<<Mapping(inputs)>>>>)

\* WorkflowFunctionStepInvoke without the filter on self.inputs.model_fields.
WorkflowFunctionStepInvokeUnfiltered(self, inputs, verbose) ==
  WorkflowFunctionStepReturn(inputs, Call(self.function, inputs), verbose)

WorkflowFunctionStepInvoke(self, inputs, verbose) ==
  LET selected == [k \in Keys |-> IF k \in self.inputs THEN inputs[k] ELSE Absent]
  IN WorkflowFunctionStepReturn(selected, Call(self.function, selected), verbose)

\* ---------------------------------------------------------- WorkflowLLMStep
\* An agent is a record [prompt_variables, prompt, final_answer]: the list of
\* its prompt variables, the set of placeholders of its prompt template and
\* the answer it gives.  str.format raises KeyError for a placeholder that is
\* not among the keyword arguments.
Range(q) == {q[j] : j \in 1..Len(q)}

PromptFormat(prompt, kwargs) ==
  IF prompt \subseteq KeysOf(kwargs) THEN PyStr(<<"p">>) ELSE Raise("KeyError")

\* Agent.invoke(inputs): a final answer and the agent's own trace, or an
\* error of the agent (ok = FALSE).
AgentInvoke(agent, passed, ok) ==
  IF ok
  THEN [raised |-> "", final_answer |-> agent.final_answer,
        steps |-> <<Step("prompt", Mapping(passed)),
                    Step("final_answer", agent.final_answer)>>]
  ELSE [raised |-> "AgentError", final_answer |-> PyNone, steps |-> <<>>]

\* lines 108-123, with `inputs` the mapping of the prompt variables, `prompt`
\* what self.agent.prompt.format(**inputs) gives and `output` what
\* self.agent.invoke(inputs) gives: inputs and prompt are logged, the agent is
\* invoked, its final answer is logged, the WorkflowStepOutput is built.
WorkflowLLMStepReturn(inputs, prompt, output, verbose) ==
  IF LogRaises(verbose, Mapping(inputs)) THEN StepRaised("ValueError", <<>>)
  ELSE IF IsRaise(prompt) THEN StepRaised(prompt.v[1], <<>>)
  ELSE IF output.raised # "" THEN StepRaised(output.raised, <<<<Mapping(inputs)>>>>)
  ELSE IF LogRaises(verbose, output.final_answer)
       THEN StepRaised("ValueError", <<<<Mapping(inputs)>>>>)
  ELSE WorkflowStepOutput(inputs, output.final_answer,
         WorkflowStep("llm", output.steps), <<<<Mapping(inputs)>>>>)

\* WorkflowLLMStepInvoke with inputs[variable] for inputs.get(variable).
WorkflowLLMStepInvokeHardLookup(self, inputs, ok, verbose) ==
  LET selected == [k \in Keys |->
                     IF k \in Range(self.agent.prompt_variables)
                     THEN inputs[k] ELSE Absent]
  IN IF \E k \in Range(self.agent.prompt_variables) : inputs[k] = Absent
     THEN StepRaised("KeyError", <<>>)
     ELSE WorkflowLLMStepReturn(selected, PromptFormat(self.agent.prompt, selected),
                                AgentInvoke(self.agent, selected, ok), verbose)

WorkflowLLMStepInvoke(self, inputs, ok, verbose) ==
  LET selected == [k \in Keys |->
                     IF k \in Range(self.agent.prompt_variables)
                     THEN DictGet(inputs, k)
                     ELSE Absent]
  IN WorkflowLLMStepReturn(selected, PromptFormat(self.agent.prompt, selected),
                            AgentInvoke(self.agent, selected, ok), verbose)

\* ----------------------------------------------- WorkflowTransformationStep
RECURSIVE Hashable(_)
Hashable(x) ==
  CASE x.t \in {"list", "dict", "mapping"} -> FALSE
    [] x.t = "tuple" -> \A j \in 1..Len(x.v) : Hashable(x.v[j])
    [] OTHER -> TRUE

\* dict(iterable) takes each item of the iterable as a key-value pair: the
\* item must itself be an iterable of exactly two elements, the first one
\* hashable.  The pair as a tuple, or the error.
PairOf(item) ==
  IF ~Iterable(item) THEN Raise("TypeError")
  ELSE IF Len(Iter(item)) # 2 THEN Raise("ValueError")
  ELSE IF ~Hashable(Iter(item)[1]) THEN Raise("TypeError")
  ELSE PyTuple(Iter(item))

\* d[k] = w on an insertion-ordered dict.
DictSet(ps, k, w) ==
  IF \E j \in 1..Len(ps) : ps[j][1] = k
  THEN [j \in 1..Len(ps) |-> IF ps[j][1] = k THEN <<k, w>> ELSE ps[j]]
  ELSE Append(ps, <<k, w>>)

NoCalls == [out |-> <<>>, calls |-> <<>>, raised |-> ""]

\* Consume collecting the items in reverse order.
RECURSIVE ConsumeReversed(_, _, _, _, _, _)
ConsumeReversed(transformation, f, es, j, asList, acc) ==
  IF j > Len(es) THEN acc
  ELSE LET r == Apply(f, <<es[j]>>)
           called == [acc EXCEPT !.calls = Append(@, <<es[j]>>)]
           item == IF transformation = "map" THEN r ELSE es[j]
           pair == PairOf(item)
       IN IF IsRaise(r) THEN [called EXCEPT !.raised = r.v[1]]
          ELSE IF transformation = "filter" /\ ~Truthy(r)
               THEN ConsumeReversed(transformation, f, es, j + 1, asList, called)
          ELSE IF asList
               THEN ConsumeReversed(transformation, f, es, j + 1, asList,
                                    [called EXCEPT !.out = <<item>> \o @])
          ELSE IF IsRaise(pair) THEN [called EXCEPT !.raised = pair.v[1]]
          ELSE ConsumeReversed(transformation, f, es, j + 1, asList,
                               [called EXCEPT !.out = DictSet(@, pair.v[1], pair.v[2])])

\* list(map(f, es)) / list(filter(f, es)) when asList, dict(...) otherwise,
\* from the j-th element on: map and filter are lazy, so the function is
\* called on an element only after the elements before it were consumed.
RECURSIVE Consume(_, _, _, _, _, _)
Consume(transformation, f, es, j, asList, acc) ==
  IF j > Len(es) THEN acc
  ELSE LET r == Apply(f, <<es[j]>>)
           called == [acc EXCEPT !.calls = Append(@, <<es[j]>>)]
           item == IF transformation = "map" THEN r ELSE es[j]
           pair == PairOf(item)
       IN IF IsRaise(r) THEN [called EXCEPT !.raised = r.v[1]]
          ELSE IF transformation = "filter" /\ ~Truthy(r)
               THEN Consume(transformation, f, es, j + 1, asList, called)
          ELSE IF asList
               THEN Consume(transformation, f, es, j + 1, asList,
                            [called EXCEPT !.out = Append(@, item)])
          ELSE IF IsRaise(pair) THEN [called EXCEPT !.raised = pair.v[1]]
          ELSE Consume(transformation, f, es, j + 1, asList,
                       [called EXCEPT !.out = DictSet(@, pair.v[1], pair.v[2])])

\* Fold calling f(element, accumulator) for f(accumulator, element).
RECURSIVE FoldSwapped(_, _, _, _)
FoldSwapped(f, es, j, acc) ==
  IF j > Len(es) THEN acc
  ELSE LET r == Apply(f, <<es[j], acc.out>>)
           called == [acc EXCEPT !.calls = Append(@, <<es[j], acc.out>>)]
       IN IF IsRaise(r) THEN [called EXCEPT !.raised = r.v[1]]
          ELSE FoldSwapped(f, es, j + 1, [called EXCEPT !.out = r])

\* functools.reduce(f, es) without initial value, from the j-th element on.
RECURSIVE Fold(_, _, _, _)
Fold(f, es, j, acc) ==
  IF j > Len(es) THEN acc
  ELSE LET r == Apply(f, <<acc.out, es[j]>>)
           called == [acc EXCEPT !.calls = Append(@, <<acc.out, es[j]>>)]
       IN IF IsRaise(r) THEN [called EXCEPT !.raised = r.v[1]]
          ELSE Fold(f, es, j + 1, [called EXCEPT !.out = r])

\* list(...) of what was consumed of a list, dict(...) otherwise.
Collected(asList, r) ==
  IF r.raised # "" THEN r
  ELSE [r EXCEPT !.out = IF asList THEN PyList(@) ELSE PyDict(@)]

Transform(transformation, f, values) ==
  IF ~Iterable(values) THEN [NoCalls EXCEPT !.raised = "TypeError"]
  ELSE IF transformation \in {"map", "filter"}
       THEN Collected(values.t = "list",
                      Consume(transformation, f, Iter(values), 1, values.t = "list",
                              NoCalls))
  ELSE IF Len(Iter(values)) = 0 THEN [NoCalls EXCEPT !.raised = "TypeError"]
  ELSE Fold(f, Iter(values), 2, [NoCalls EXCEPT !.out = Iter(values)[1]])

\* lines 146-172, with `inputs` the mapping {input_field: values} and `r`
\* what the transformation of the values gives: the inputs are logged, the
\* transformation is run, its output is logged, the WorkflowStepOutput is
\* built.
WorkflowTransformationStepReturn(inputs, r, verbose) ==
  IF LogRaises(verbose, Mapping(inputs)) THEN StepRaised("ValueError", <<>>)
  ELSE IF r.raised # "" THEN StepRaised(r.raised, r.calls)
  ELSE IF LogRaises(verbose, r.out) THEN StepRaised("ValueError", r.calls)
  ELSE WorkflowStepOutput(inputs, r.out,
         WorkflowStep("transformation",
           <<Step("inputs", Mapping(inputs)), Step("output", r.out)>>),
         r.calls)

\* WorkflowTransformationStepInvoke with inputs.get(self.input_field) for the
\* subscript: a missing entry is read as None.
WorkflowTransformationStepInvokeSoftLookup(self, inputs, verbose) ==
  LET values == DictGet(inputs, self.input_field)
      selected == [k \in Keys |-> IF k = self.input_field THEN values ELSE Absent]
  IN WorkflowTransformationStepReturn(
       selected, Transform(self.transformation, self.function, values), verbose)

\* lines 141-172: values = inputs[self.input_field] raises KeyError for a
\* missing entry, before anything is called.
WorkflowTransformationStepInvoke(self, inputs, verbose) ==
  IF inputs[self.input_field] = Absent THEN StepRaised("KeyError", <<>>)
  ELSE LET values == inputs[self.input_field]
           selected == [k \in Keys |-> IF k = self.input_field THEN values ELSE Absent]
       IN WorkflowTransformationStepReturn(
            selected, Transform(self.transformation, self.function, values), verbose)

\* Whether the agent of a step answers (TRUE) or fails (FALSE) is not in the
\* hands of the workflow; a step without an agent has nothing to fail.
AgentOutcomes(self) == IF self.kind = "llm" THEN BOOLEAN ELSE {TRUE}

\* step.invoke(state, verbose) for whichever variant the step is.
StepInvoke(self, inputs, ok, verbose) ==
  CASE self.kind = "function" -> WorkflowFunctionStepInvoke(self, inputs, verbose)
    [] self.kind = "llm" -> WorkflowLLMStepInvoke(self, inputs, ok, verbose)
    [] self.kind = "transformation" ->
         WorkflowTransformationStepInvoke(self, inputs, verbose)

\* ------------------------------------------------------ WorkflowStateManager
\* update with self.state.setdefault(name, step.output) for the assignment.
WorkflowStateManagerSetDefault(state, name, step) ==
  [state EXCEPT ![name] = IF @ = Absent THEN step.output ELSE @]

\* update(name, step): self.state[name] = step.output
WorkflowStateManagerUpdate(state, name, step) == [state EXCEPT ![name] = step.output]

\* ---------------------------------------------------------------- Workflow
NoAgent == [prompt_variables |-> <<>>, prompt |-> {}, final_answer |-> PyNone]

Assistant == [prompt_variables |-> <<"n", "s">>, prompt |-> {"n", "s"},
              final_answer |-> PyStr(<<"o", "k">>)]

FunctionStep(name, fields, function) ==
  [kind |-> "function", name |-> name, inputs |-> fields, function |-> function,
   input_field |-> "", transformation |-> "", agent |-> NoAgent]

TransformationStep(name, input_field, transformation, function) ==
  [kind |-> "transformation", name |-> name, inputs |-> {}, function |-> function,
   input_field |-> input_field, transformation |-> transformation, agent |-> NoAgent]

LLMStep(name, agent) ==
  [kind |-> "llm", name |-> name, inputs |-> {}, function |-> "",
   input_field |-> "", transformation |-> "", agent |-> agent]

\* The steps a workflow is declared from.
StepCatalogue ==
  { FunctionStep("n", {"n"}, "succ"),
    FunctionStep("t", {"s", "n"}, "pick"),
    FunctionStep("s", {}, "fail"),
    TransformationStep("s", "xs", "map", "inc"),
    TransformationStep("s", "xs", "filter", "gt1"),
    TransformationStep("s", "xs", "reduce", "sub"),
    TransformationStep("t", "xs", "map", "key_zero"),
    TransformationStep("t", "m", "map", "pair_inc"),
    TransformationStep("t", "m", "map", "key_zero"),
    TransformationStep("t", "m", "filter", "pair_gt1"),
    TransformationStep("t", "m", "filter", "always"),
    LLMStep("t", Assistant) }

StepLists == UNION {[1..len -> StepCatalogue] : len \in 0..MaxSteps}

\* The `output` selectors a workflow is declared with: the name of a step,
\* the name of an input that no step has, a name nothing ever writes.
OutputSelectors == {"s", "xs", "q"}

\* The input schema (Workflow.inputs): n: int.
InputSchema == {"n"}

FieldTypeOK(field, x) ==
  CASE field = "n" -> x.t = "int"
    [] field = "xs" -> x.t = "list" /\ \A j \in 1..Len(x.v) : x.v[j].t = "int"
    [] OTHER -> TRUE

\* self.inputs.model_validate(inputs): every declared field is present and
\* has its declared type; entries that are not declared are ignored.
ModelValidate(schema, inputs) ==
  \A field \in schema : inputs[field] # Absent /\ FieldTypeOK(field, inputs[field])

Ints(q) == PyList([j \in 1..Len(q) |-> PyInt(q[j])])

KeyA == PyStr(<<"a">>)

KeyXY == PyStr(<<"x", "y">>)

\* The inputs mappings a caller passes.
InputChoices ==
  { [EmptyMapping EXCEPT !["n"] = PyInt(1), !["xs"] = Ints(<<3, 1, 2>>),
                         !["m"] = PyDict(<<<<KeyA, PyInt(1)>>, <<KeyXY, PyInt(2)>>>>)],
    [EmptyMapping EXCEPT !["n"] = PyInt(1), !["xs"] = Ints(<<>>),
                         !["m"] = PyDict(<<<<KeyXY, PyInt(2)>>>>)],
    [EmptyMapping EXCEPT !["n"] = PyInt(1), !["xs"] = Ints(<<4>>)],
    [EmptyMapping EXCEPT !["n"] = PyInt(1)],
    [EmptyMapping EXCEPT !["n"] = PyNone, !["xs"] = Ints(<<3, 1, 2>>)],
    EmptyMapping }

Runs == {1, 2}

\* name: str and description: str of the workflow.
WorkflowName == "contract"

WorkflowDescription == "drafts a contract"

\* as_tool(): Tool(function=..., name=..., description=..., args_schema=...)
Tool(name, description, args_schema) ==
  [name |-> name, description |-> description, args_schema |-> args_schema]

NoTool == Tool("", "", {})

\* The dict objects of a run: the mapping its caller passes and the mapping
\* its state manager holds.
InputsObj(r) == IF r = 1 THEN "in1" ELSE "in2"

StateObj(r) == IF r = 1 THEN "st1" ELSE "st2"

Objs == {"in1", "in2", "st1", "st2"}

NoObj == "null"

NoStepOutput == StepRaised("", <<>>)

NoResult == [status |-> "none", error |-> "", inputs |-> EmptyMapping,
             output |-> PyNone, steps |-> <<>>]

WorkflowRaised(e) == [NoResult EXCEPT !.status = "raised", !.error = e]

\* WorkflowOutput(inputs=..., output=..., steps=...); its output field has
\* the same declared type as WorkflowStepOutput.output.
WorkflowOutput(inputs, output, steps) ==
  IF IsRaise(ValidateOutput(output)) THEN WorkflowRaised("ValidationError")
  ELSE [status |-> "returned", error |-> "", inputs |-> inputs,
        output |-> ValidateOutput(output), steps |-> steps]

VARIABLES
  wf,              \* the Workflow: [name, description, steps, inputs, output]
  heap,            \* the dict objects: object -> mapping
  inputs,          \* per run: the dict object passed as `inputs`
  state_manager,   \* per run: the dict object held as state_manager.state
  pc,              \* per run: position in Workflow.invoke
  idx,             \* per run: position of the loop in self.steps
  output,          \* per run: the WorkflowStepOutput of the current step
  workflow_steps,  \* per run: the trace list
  result,          \* per run: what Workflow.invoke returned or raised
  invoked,         \* per run: history of the calls of step.invoke, each
                   \* [i: position of the step, state: the state mapping it
                   \* was called on, ok: whether its agent answered,
                   \* out: its outcome]
  verbose,         \* per run: the verbose flag of the workflow it runs
  tool,            \* per run: the Tool made by as_tool, when it runs as a tool
  tool_output,     \* per run: what the function of the tool returned
  called_with,     \* per run: history, the inputs mapping as it was at the call
  updates          \* per run: history of the calls of state_manager.update

vars == <<wf, heap, inputs, state_manager, pc, idx, output, workflow_steps,
          result, invoked, verbose, tool, tool_output, called_with, updates>>

\* What the run of a workflow leaves alone: its configuration, the tool it
\* was called through and the inputs it was called with.
caller == <<verbose, tool, tool_output, called_with>>

InitRun(active) ==
  /\ wf \in [name : {WorkflowName}, description : {WorkflowDescription},
              steps : StepLists, inputs : {InputSchema}, output : OutputSelectors]
  /\ \E given \in [active -> InputChoices] :
       heap = [o \in Objs |->
                 IF \E r \in active : o = InputsObj(r)
                 THEN given[CHOOSE r \in active : o = InputsObj(r)]
                 ELSE EmptyMapping]
  /\ inputs = [r \in Runs |-> InputsObj(r)]
  /\ state_manager = [r \in Runs |-> NoObj]
  /\ pc = [r \in Runs |-> IF r \in active THEN "validate" ELSE "idle"]
  /\ idx = [r \in Runs |-> 0]
  /\ output = [r \in Runs |-> NoStepOutput]
  /\ workflow_steps = [r \in Runs |-> <<>>]
  /\ result = [r \in Runs |-> NoResult]
  /\ invoked = [r \in Runs |-> <<>>]
  /\ verbose = [r \in Runs |-> TRUE]
  /\ tool = [r \in Runs |-> NoTool]
  /\ tool_output = [r \in Runs |-> Absent]
  /\ called_with = [r \in Runs |-> heap[inputs[r]]]
  /\ updates = [r \in Runs |-> <<>>]

\* One call of Workflow.invoke.
Init == InitRun({1})

\* Validate with the validation error caught and dropped.
ValidateIgnored(r) ==
  /\ pc[r] = "validate"
  /\ pc' = [pc EXCEPT ![r] = "create"]
  /\ UNCHANGED <<wf, heap, inputs, state_manager, idx, output, workflow_steps,
                 result, invoked, caller, updates>>

\* line 225: _ = self.inputs.model_validate(inputs)
Validate(r) ==
  /\ pc[r] = "validate"
  /\ IF ModelValidate(wf.inputs, heap[inputs[r]])
     THEN pc' = [pc EXCEPT ![r] = "create"] /\ UNCHANGED result
     ELSE /\ pc' = [pc EXCEPT ![r] = "raised"]
          /\ result' = [result EXCEPT ![r] = WorkflowRaised("ValidationError")]
  /\ UNCHANGED <<wf, heap, inputs, state_manager, idx, output, workflow_steps,
                 invoked, caller, updates>>

\* CreateState with a state manager that holds the inputs mapping itself.
CreateStateAliased(r) ==
  /\ pc[r] = "create"
  /\ state_manager' = [state_manager EXCEPT ![r] = inputs[r]]
  /\ workflow_steps' = [workflow_steps EXCEPT ![r] = <<>>]
  /\ idx' = [idx EXCEPT ![r] = 1]
  /\ pc' = [pc EXCEPT ![r] = IF Len(wf.steps) = 0 THEN "finish" ELSE "invoke"]
  /\ UNCHANGED <<wf, heap, inputs, output, result, invoked, caller, updates>>

\* lines 226-228: the state manager gets its own dict, a copy of inputs that
\* the validation of the field `state: dict[str, Any]` builds; the trace list
\* is empty; the loop starts.
CreateState(r) ==
  /\ pc[r] = "create"
  /\ state_manager' = [state_manager EXCEPT ![r] = StateObj(r)]
  /\ heap' = [heap EXCEPT ![StateObj(r)] = heap[inputs[r]]]
  /\ workflow_steps' = [workflow_steps EXCEPT ![r] = <<>>]
  /\ idx' = [idx EXCEPT ![r] = 1]
  /\ pc' = [pc EXCEPT ![r] = IF Len(wf.steps) = 0 THEN "finish" ELSE "invoke"]
  /\ UNCHANGED <<wf, inputs, output, result, invoked, caller, updates>>

\* InvokeStep with the call wrapped in try/except: the error of a step is
\* swallowed and the loop goes on with an empty step output.
InvokeStepSwallow(r) ==
  /\ pc[r] = "invoke"
  /\ \E ok \in AgentOutcomes(wf.steps[idx[r]]) :
       \E out \in {StepInvoke(wf.steps[idx[r]], heap[state_manager[r]], ok, verbose[r])} :
          /\ invoked' = [invoked EXCEPT ![r] =
                          Append(@, [i |-> idx[r], state |-> heap[state_manager[r]],
                                     ok |-> ok, out |-> out])]
          /\ pc' = [pc EXCEPT ![r] = "update"]
          /\ output' = [output EXCEPT ![r] = out]
          /\ UNCHANGED result
  /\ UNCHANGED <<wf, heap, inputs, state_manager, idx, workflow_steps, caller,
                 updates>>

\* InvokeStep with a function step that filters the mapping it is given in
\* place (deleting the keys it does not select) instead of building a new one.
InvokeStepFilterInPlace(r) ==
  /\ pc[r] = "invoke"
  /\ \E ok \in AgentOutcomes(wf.steps[idx[r]]) :
       \E out \in {StepInvoke(wf.steps[idx[r]], heap[state_manager[r]], ok, verbose[r])} :
          /\ invoked' = [invoked EXCEPT ![r] =
                          Append(@, [i |-> idx[r], state |-> heap[state_manager[r]],
                                     ok |-> ok, out |-> out])]
          /\ heap' = [heap EXCEPT ![state_manager[r]] =
                        IF wf.steps[idx[r]].kind = "function"
                        THEN [k \in Keys |-> IF k \in wf.steps[idx[r]].inputs
                                             THEN @[k] ELSE Absent]
                        ELSE @]
          /\ IF out.raised # ""
             THEN /\ pc' = [pc EXCEPT ![r] = "raised"]
                  /\ result' = [result EXCEPT ![r] = WorkflowRaised(out.raised)]
                  /\ UNCHANGED output
             ELSE /\ pc' = [pc EXCEPT ![r] = "update"]
                  /\ output' = [output EXCEPT ![r] = out]
                  /\ UNCHANGED result
  /\ UNCHANGED <<wf, inputs, state_manager, idx, workflow_steps, caller, updates>>

\* line 229: output = step.invoke(state_manager.state, self.verbose)
InvokeStep(r) ==
  /\ pc[r] = "invoke"
  /\ \E ok \in AgentOutcomes(wf.steps[idx[r]]) :
       \E out \in {StepInvoke(wf.steps[idx[r]], heap[state_manager[r]], ok, verbose[r])} :
          /\ invoked' = [invoked EXCEPT ![r] =
                          Append(@, [i |-> idx[r], state |-> heap[state_manager[r]],
                                     ok |-> ok, out |-> out])]
          /\ IF out.raised # ""
             THEN /\ pc' = [pc EXCEPT ![r] = "raised"]
                  /\ result' = [result EXCEPT ![r] = WorkflowRaised(out.raised)]
                  /\ UNCHANGED output
             ELSE /\ pc' = [pc EXCEPT ![r] = "update"]
                  /\ output' = [output EXCEPT ![r] = out]
                  /\ UNCHANGED result
  /\ UNCHANGED <<wf, heap, inputs, state_manager, idx, workflow_steps, caller,
                 updates>>

\* Update with the call of state_manager.update left out.
UpdateSkipped(r) ==
  /\ pc[r] = "update"
  /\ pc' = [pc EXCEPT ![r] = "append"]
  /\ UNCHANGED <<wf, heap, inputs, state_manager, idx, output, workflow_steps,
                 result, invoked, caller, updates>>

\* line 230: state_manager.update(step.name, output)
Update(r) ==
  /\ pc[r] = "update"
  /\ heap' = [heap EXCEPT ![state_manager[r]] =
                WorkflowStateManagerUpdate(@, wf.steps[idx[r]].name, output[r])]
  /\ updates' = [updates EXCEPT ![r] =
                   Append(@, [i |-> idx[r], name |-> wf.steps[idx[r]].name,
                              step |-> output[r]])]
  /\ pc' = [pc EXCEPT ![r] = "append"]
  /\ UNCHANGED <<wf, inputs, state_manager, idx, output, workflow_steps, result,
                 invoked, caller>>

\* AppendStep with workflow_steps.insert(0, output.step) for the append.
AppendStepAtFront(r) ==
  /\ pc[r] = "append"
  /\ workflow_steps' = [workflow_steps EXCEPT ![r] = <<output[r].step>> \o @]
  /\ idx' = [idx EXCEPT ![r] = @ + 1]
  /\ pc' = [pc EXCEPT ![r] = IF idx[r] = Len(wf.steps) THEN "finish" ELSE "invoke"]
  /\ UNCHANGED <<wf, heap, inputs, state_manager, output, result, invoked,
                 caller, updates>>

\* line 231: workflow_steps.append(output.step), and the loop goes on
AppendStep(r) ==
  /\ pc[r] = "append"
  /\ workflow_steps' = [workflow_steps EXCEPT ![r] = Append(@, output[r].step)]
  /\ idx' = [idx EXCEPT ![r] = @ + 1]
  /\ pc' = [pc EXCEPT ![r] = IF idx[r] = Len(wf.steps) THEN "finish" ELSE "invoke"]
  /\ UNCHANGED <<wf, heap, inputs, state_manager, output, result, invoked,
                 caller, updates>>

\* Finish with state_manager.state[self.output] for the get: a key that is
\* not in the state raises KeyError.
FinishHardLookup(r) ==
  /\ pc[r] = "finish"
  /\ LET state == heap[state_manager[r]]
         out == IF state[wf.output] = Absent THEN WorkflowRaised("KeyError")
                ELSE IF LogRaises(verbose[r], state[wf.output])
                     THEN WorkflowRaised("ValueError")
                ELSE WorkflowOutput(heap[inputs[r]], state[wf.output], workflow_steps[r])
     IN /\ result' = [result EXCEPT ![r] = out]
        /\ pc' = [pc EXCEPT ![r] = out.status]
  /\ UNCHANGED <<wf, heap, inputs, state_manager, idx, output, workflow_steps,
                 invoked, caller, updates>>

\* Finish with WorkflowOutput(inputs=state_manager.state, ...).
FinishReturnsState(r) ==
  /\ pc[r] = "finish"
  /\ LET selected == DictGet(heap[state_manager[r]], wf.output)
         out == IF LogRaises(verbose[r], selected) THEN WorkflowRaised("ValueError")
                ELSE WorkflowOutput(heap[state_manager[r]], selected, workflow_steps[r])
     IN /\ result' = [result EXCEPT ![r] = out]
        /\ pc' = [pc EXCEPT ![r] = out.status]
  /\ UNCHANGED <<wf, heap, inputs, state_manager, idx, output, workflow_steps,
                 invoked, caller, updates>>

\* lines 233-237: output = state_manager.state.get(self.output); the
\* output is logged when verbose;
\* return WorkflowOutput(inputs=inputs, output=output, steps=workflow_steps)
Finish(r) ==
  /\ pc[r] = "finish"
  /\ LET selected == DictGet(heap[state_manager[r]], wf.output)
         out == IF LogRaises(verbose[r], selected) THEN WorkflowRaised("ValueError")
                ELSE WorkflowOutput(heap[inputs[r]], selected, workflow_steps[r])
     IN /\ result' = [result EXCEPT ![r] = out]
        /\ pc' = [pc EXCEPT ![r] = out.status]
  /\ UNCHANGED <<wf, heap, inputs, state_manager, idx, output, workflow_steps,
                 invoked, caller, updates>>

Next ==
  \E r \in Runs :
    \/ Validate(r)
    \/ CreateState(r)
    \/ InvokeStep(r)
    \/ Update(r)
    \/ AppendStep(r)
    \/ Finish(r)

Spec == Init /\ [][Next]_vars

\* ------------------------------------------------- two calls, and as_tool
\* Two calls of invoke on one workflow definition, interleaved step by step.
\* The second call is a direct one, on a mapping of its own or on the very
\* mapping of the first call, or it is made through the tool of as_tool.  The
\* two calls may differ in the verbose flag of the workflow they are made on.
MaxPairSteps == 2

\* A string with colour markup that is no directive of the logging sink.
Markup == PyStr(<<"<", "x", ">">>)

PairCatalogue ==
  { FunctionStep("n", {"n"}, "succ"),
    FunctionStep("t", {"s", "n"}, "pick"),
    TransformationStep("s", "xs", "map", "inc"),
    LLMStep("t", Assistant) }

PairStepLists == UNION {[1..len -> PairCatalogue] : len \in 0..MaxPairSteps}

PairSelectors == {"s", "t"}

PairInputChoices ==
  { [EmptyMapping EXCEPT !["n"] = PyInt(1), !["xs"] = Ints(<<3, 1, 2>>)],
    [EmptyMapping EXCEPT !["n"] = PyInt(1), !["s"] = Markup] }

InitPair ==
  /\ wf \in [name : {WorkflowName}, description : {WorkflowDescription},
              steps : PairStepLists, inputs : {InputSchema}, output : PairSelectors]
  /\ \E first, second \in PairInputChoices :
       \E shared, through_tool \in BOOLEAN :
         /\ shared => (~through_tool /\ second = first)
         /\ heap = [o \in Objs |->
                      CASE o = "in1" -> first
                        [] o = "in2" -> IF shared THEN EmptyMapping ELSE second
                        [] OTHER -> EmptyMapping]
         /\ inputs = [r \in Runs |-> IF shared THEN "in1" ELSE InputsObj(r)]
         /\ pc = [r \in Runs |-> IF r = 2 /\ through_tool THEN "idle" ELSE "validate"]
  /\ state_manager = [r \in Runs |-> NoObj]
  /\ idx = [r \in Runs |-> 0]
  /\ output = [r \in Runs |-> NoStepOutput]
  /\ workflow_steps = [r \in Runs |-> <<>>]
  /\ result = [r \in Runs |-> NoResult]
  /\ invoked = [r \in Runs |-> <<>>]
  /\ verbose \in {v \in [Runs -> BOOLEAN] : v[1]}
  /\ tool = [r \in Runs |-> NoTool]
  /\ tool_output = [r \in Runs |-> Absent]
  /\ called_with = [r \in Runs |-> heap[inputs[r]]]
  /\ updates = [r \in Runs |-> <<>>]

\* lines 239-246: as_tool() makes the Tool of the workflow.
AsTool(r) ==
  /\ pc[r] = "idle"
  /\ tool' = [tool EXCEPT ![r] = Tool(wf.name, wf.description, wf.inputs)]
  /\ pc' = [pc EXCEPT ![r] = "tool"]
  /\ UNCHANGED <<wf, heap, inputs, state_manager, idx, output, workflow_steps,
                 result, invoked, verbose, tool_output, called_with, updates>>

\* The tool is invoked: its function is called with the caller's inputs as
\* keyword arguments, which `lambda **inputs` (line 242) collects into a dict
\* of its own, and self.invoke(inputs) begins.
ToolInvoke(r) ==
  /\ pc[r] = "tool"
  /\ called_with' = [called_with EXCEPT ![r] = heap[inputs[r]]]
  /\ pc' = [pc EXCEPT ![r] = "validate"]
  /\ UNCHANGED <<wf, heap, inputs, state_manager, idx, output, workflow_steps,
                 result, invoked, verbose, tool, tool_output, updates>>

\* ToolReturn with a function that gives the inputs of the WorkflowOutput.
ToolReturnInputs(r) ==
  /\ tool[r] # NoTool
  /\ pc[r] \in {"returned", "raised"}
  /\ IF pc[r] = "returned"
     THEN /\ tool_output' = [tool_output EXCEPT ![r] = Mapping(result[r].inputs)]
          /\ pc' = [pc EXCEPT ![r] = "tool_returned"]
     ELSE /\ pc' = [pc EXCEPT ![r] = "tool_raised"]
          /\ UNCHANGED tool_output
  /\ UNCHANGED <<wf, heap, inputs, state_manager, idx, output, workflow_steps,
                 result, invoked, verbose, tool, called_with, updates>>

\* line 242: self.invoke(inputs).output; an error of invoke is not caught.
ToolReturn(r) ==
  /\ tool[r] # NoTool
  /\ pc[r] \in {"returned", "raised"}
  /\ IF pc[r] = "returned"
     THEN /\ tool_output' = [tool_output EXCEPT ![r] = result[r].output]
          /\ pc' = [pc EXCEPT ![r] = "tool_returned"]
     ELSE /\ pc' = [pc EXCEPT ![r] = "tool_raised"]
          /\ UNCHANGED tool_output
  /\ UNCHANGED <<wf, heap, inputs, state_manager, idx, output, workflow_steps,
                 result, invoked, verbose, tool, called_with, updates>>

NextPair ==
  \E r \in Runs :
    \/ Validate(r)
    \/ CreateState(r)
    \/ InvokeStep(r)
    \/ Update(r)
    \/ AppendStep(r)
    \/ Finish(r)
    \/ AsTool(r)
    \/ ToolInvoke(r)
    \/ ToolReturn(r)

SpecPair == InitPair /\ [][NextPair]_vars

\* ================================================================== claims
Entry(r, j) == invoked[r][j]

StepAt(r, j) == wf.steps[invoked[r][j].i]

Returned(r) == result[r].status = "returned"

\* C1: in a run of Workflow.invoke that returns, every declared step was
\* invoked exactly once, in declared order, and the returned steps list has
\* the length of the declared step list, its i-th record being the trace
\* record that the i-th declared step's invoke produced.
C1_EveryStepOnceInOrder ==
  \A r \in Runs :
    Returned(r) =>
      /\ Len(invoked[r]) = Len(wf.steps)
      /\ \A j \in 1..Len(invoked[r]) : invoked[r][j].i = j
      /\ Len(result[r].steps) = Len(wf.steps)
      /\ \A j \in 1..Len(wf.steps) :
           /\ result[r].steps[j] = invoked[r][j].out.step
           /\ result[r].steps[j].name = wf.steps[j].kind

C1_Witness ==
  /\ Returned(1)
  /\ Len(wf.steps) = 3
  /\ wf.steps[1].kind = "transformation"
  /\ wf.steps[2].kind = "llm"
  /\ wf.steps[3].kind = "function"
  /\ result[1].steps[1] # result[1].steps[3]

\* C2: when two declared steps share a name, the state entry under that name
\* holds the output of the later one once it has run: every step invoked
\* after it, up to the next step of that name, is called on a state holding
\* that output under the name, and a run that returns with `output` selecting
\* the name returns the output of the last step of that name.
SameNameBefore(k) == \E j \in 1..(k - 1) : wf.steps[j].name = wf.steps[k].name

NoSameNameIn(k, lo, hi) ==
  \A l \in lo..hi : wf.steps[l].name # wf.steps[k].name

C2_SecondStepOverwrites ==
  \A r \in Runs :
    \A k \in 1..Len(invoked[r]) :
      SameNameBefore(k) =>
        /\ \A m \in (k + 1)..Len(invoked[r]) :
             NoSameNameIn(k, k + 1, m - 1) =>
               Entry(r, m).state[wf.steps[k].name] = Entry(r, k).out.output
        /\ ( /\ Returned(r)
             /\ wf.output = wf.steps[k].name
             /\ NoSameNameIn(k, k + 1, Len(wf.steps)) )
           => result[r].output = Entry(r, k).out.output

C2_Witness ==
  /\ Returned(1)
  /\ Len(wf.steps) = 3
  /\ wf.steps[1].name = "s"
  /\ wf.steps[2].name = "s"
  /\ wf.output = "s"
  /\ Entry(1, 1).out.output # Entry(1, 2).out.output
  /\ wf.steps[3].kind = "function"
  /\ Entry(1, 3).out.inputs["s"] = Entry(1, 2).out.output
  /\ result[1].output = Entry(1, 2).out.output

\* C3: when the invoke of the k-th step raises, Workflow.invoke raises that
\* error and returns no WorkflowOutput (no steps list, no output), no step
\* after the k-th is invoked, and the failing step writes nothing into the
\* state: the state stays what it was when the step was invoked.
C3_AbortOnStepFailure ==
  \A r \in Runs :
    \A k \in 1..Len(invoked[r]) :
      Entry(r, k).out.raised # "" =>
        /\ pc[r] = "raised"
        /\ result[r] = WorkflowRaised(Entry(r, k).out.raised)
        /\ result[r].steps = <<>> /\ result[r].output = PyNone
        /\ k = Len(invoked[r])
        /\ heap[state_manager[r]] = Entry(r, k).state

C3_Witness ==
  /\ Len(wf.steps) = 3
  /\ Len(invoked[1]) = 2
  /\ Entry(1, 1).out.raised = ""
  /\ Entry(1, 2).out.raised = "RuntimeError"
  /\ heap[state_manager[1]] # heap[inputs[1]]
  /\ pc[1] = "raised"

\* C4: when the inputs mapping fails validation against the input schema
\* (n: int), Workflow.invoke raises a validation error before a state store
\* exists and before any step is invoked.
InvalidInputs(m) == m["n"] = Absent \/ m["n"].t # "int"

C4_InvalidInputsRunNoStep ==
  \A r \in Runs :
    (InvalidInputs(heap[inputs[r]]) /\ pc[r] \notin {"idle", "validate"}) =>
      /\ pc[r] = "raised"
      /\ result[r] = WorkflowRaised("ValidationError")
      /\ state_manager[r] = NoObj
      /\ invoked[r] = <<>>
      /\ workflow_steps[r] = <<>>

C4_Witness ==
  /\ InvalidInputs(heap[inputs[1]])
  /\ heap[inputs[1]]["n"] = PyNone
  /\ Len(wf.steps) > 0
  /\ pc[1] = "raised"

\* C5 as stated: whenever every step has returned and no declared step has
\* the name the `output` selector gives, Workflow.invoke returns a
\* WorkflowOutput whose output is None.
NoStepNamed(key) == \A j \in 1..Len(wf.steps) : wf.steps[j].name # key

LoopDone(r) ==
  /\ pc[r] \in {"returned", "raised"}
  /\ state_manager[r] # NoObj
  /\ Len(workflow_steps[r]) = Len(wf.steps)

C5_NoStepOfThatNameIsNull ==
  \A r \in Runs :
    (LoopDone(r) /\ NoStepNamed(wf.output)) =>
      (Returned(r) /\ result[r].output = PyNone)

\* C5, amended: whenever every step has returned and the `output` selector
\* names neither a declared step nor a key of the inputs mapping,
\* Workflow.invoke returns a WorkflowOutput whose output is None; it does not
\* raise.
C5_SelectorMissIsNull ==
  \A r \in Runs :
    ( /\ LoopDone(r)
      /\ NoStepNamed(wf.output)
      /\ heap[inputs[r]][wf.output] = Absent )
    => (Returned(r) /\ result[r].output = PyNone)

C5_Witness ==
  /\ Returned(1)
  /\ Len(wf.steps) >= 2
  /\ wf.output = "q"
  /\ NoStepNamed("q")
  /\ result[1].output = PyNone
  /\ Len(result[1].steps) = Len(wf.steps)

\* C6: an agent step passes to its agent a mapping whose keys are exactly the
\* agent's prompt variables, each bound to the state's value when the state
\* has the variable and to None when it has not; the agent is called whether
\* or not variables are absent, and when the agent answers the step returns
\* with that mapping as its inputs.
C6_AgentSoftBinding ==
  \A r \in Runs :
    \A j \in 1..Len(invoked[r]) :
      StepAt(r, j).kind = "llm" =>
        /\ Len(Entry(r, j).out.calls) = 1
        /\ LET passed == Entry(r, j).out.calls[1][1].v
               variables == Range(StepAt(r, j).agent.prompt_variables)
           IN /\ {k \in Keys : passed[k] # Absent} = variables
              /\ \A k \in variables :
                   passed[k] = IF Entry(r, j).state[k] # Absent
                               THEN Entry(r, j).state[k] ELSE PyNone
              /\ Entry(r, j).ok =>
                   (Entry(r, j).out.raised = "" /\ Entry(r, j).out.inputs = passed)

C6_Witness ==
  /\ Len(invoked[1]) >= 1
  /\ StepAt(1, 1).kind = "llm"
  /\ Entry(1, 1).state["s"] = Absent
  /\ Entry(1, 1).state["n"] = PyInt(1)
  /\ Entry(1, 1).out.raised = ""
  /\ Entry(1, 1).out.inputs["s"] = PyNone
  /\ Entry(1, 1).out.inputs["n"] = PyInt(1)
  /\ Returned(1)

\* C7: a function step calls its function with, and records as its inputs
\* (WorkflowStepOutput.inputs and the inputs entry of its trace), exactly the
\* restriction of the state to the declared fields of its input schema:
\* other state entries are dropped, a declared field the state lacks is
\* absent, the values are the state's.
C7_FunctionInputsAreRestriction ==
  \A r \in Runs :
    \A j \in 1..Len(invoked[r]) :
      StepAt(r, j).kind = "function" =>
        /\ Len(Entry(r, j).out.calls) = 1
        /\ LET passed == Entry(r, j).out.calls[1][1].v
           IN /\ \A k \in Keys :
                   passed[k] = IF k \in StepAt(r, j).inputs
                               THEN Entry(r, j).state[k] ELSE Absent
              /\ Entry(r, j).out.raised = "" =>
                   /\ Entry(r, j).out.inputs = passed
                   /\ Entry(r, j).out.step.name = "function"
                   /\ Entry(r, j).out.step.steps[1] = Step("inputs", Mapping(passed))

C7_Witness ==
  /\ Len(invoked[1]) >= 1
  /\ StepAt(1, 1).kind = "function"
  /\ StepAt(1, 1).inputs = {"s", "n"}
  /\ Entry(1, 1).state["xs"] # Absent
  /\ Entry(1, 1).state["m"] # Absent
  /\ Entry(1, 1).state["s"] = Absent
  /\ Entry(1, 1).out.raised = ""
  /\ {k \in Keys : Entry(1, 1).out.inputs[k] # Absent} = {"n"}
  /\ Returned(1)

\* C8 as stated: a `map` transformation step whose source collection is a
\* keyed mapping applies its function once to each (key, value) pair of the
\* mapping, in order, and outputs the mapping built from the pairs the
\* function returns.
IsTransformation(r, j, transformation, shape) ==
  /\ StepAt(r, j).kind = "transformation"
  /\ StepAt(r, j).transformation = transformation
  /\ Entry(r, j).state[StepAt(r, j).input_field].t = shape

Source(r, j) == Entry(r, j).state[StepAt(r, j).input_field].v

C8_MapOverMappingAppliesToPairs ==
  \A r \in Runs :
    \A j \in 1..Len(invoked[r]) :
      IsTransformation(r, j, "map", "dict") =>
        /\ Entry(r, j).out.calls =
             [p \in 1..Len(Source(r, j)) |-> <<PyTuple(Source(r, j)[p])>>]
        /\ Entry(r, j).out.raised = ""
        /\ Entry(r, j).out.output.t = "dict"
        /\ Len(Entry(r, j).out.output.v) = Len(Source(r, j))

\* C9 as stated: a `filter` transformation step whose source collection is a
\* keyed mapping outputs the mapping of exactly those key-value pairs of the
\* source for which the function is true-ish, each key bound to its original
\* value.
C9_FilterOverMappingKeepsPairs ==
  \A r \in Runs :
    \A j \in 1..Len(invoked[r]) :
      IsTransformation(r, j, "filter", "dict") =>
        /\ Entry(r, j).out.raised = ""
        /\ Entry(r, j).out.output =
             PyDict(SelectSeq(Source(r, j),
                              LAMBDA p : Truthy(Apply(StepAt(r, j).function,
                                                      <<PyTuple(p)>>))))

\* C10: a transformation step whose source collection is a list, when it
\* returns: `map` outputs a list of the same length whose i-th element is the
\* function applied to the i-th source element; `filter` outputs the list of
\* the source elements for which the function is true-ish, in their original
\* order; the function was called once per element, in order, and the state
\* (the source collection with it) is what it was before the step.
C10_SequenceMapFilter ==
  \A r \in Runs :
    \A j \in 1..Len(invoked[r]) :
      LET f == StepAt(r, j).function
          out == Entry(r, j).out
      IN /\ (IsTransformation(r, j, "map", "list") /\ out.raised = "") =>
              /\ out.output.t = "list"
              /\ Len(out.output.v) = Len(Source(r, j))
              /\ \A p \in 1..Len(Source(r, j)) :
                   out.output.v[p] = Apply(f, <<Source(r, j)[p]>>)
              /\ out.calls = [p \in 1..Len(Source(r, j)) |-> <<Source(r, j)[p]>>]
         /\ (IsTransformation(r, j, "filter", "list") /\ out.raised = "") =>
              /\ out.output =
                   PyList(SelectSeq(Source(r, j), LAMBDA x : Truthy(Apply(f, <<x>>))))
              /\ out.calls = [p \in 1..Len(Source(r, j)) |-> <<Source(r, j)[p]>>]
         /\ ( /\ StepAt(r, j).kind = "transformation"
              /\ j = Len(invoked[r])
              /\ pc[r] = "update" )
            => heap[state_manager[r]] = Entry(r, j).state

C10_Witness ==
  /\ Len(invoked[1]) = 2
  /\ pc[1] = "update"
  /\ IsTransformation(1, 1, "map", "list")
  /\ IsTransformation(1, 2, "filter", "list")
  /\ Source(1, 1) = <<PyInt(3), PyInt(1), PyInt(2)>>
  /\ Entry(1, 1).out.output = Ints(<<4, 2, 3>>)
  /\ Entry(1, 2).out.output = Ints(<<3, 2>>)
  /\ heap[state_manager[1]]["xs"] = Ints(<<3, 1, 2>>)

\* C11: a `reduce` transformation step over a list outputs the left fold of
\* its function over the elements, the first element being the first
\* accumulator: f(...f(f(e1, e2), e3)..., en), the function being called with
\* (accumulator, next element) once per element after the first; a list of
\* one element gives that element without any call of the function; on an
\* empty list the step raises, no call is made, and the run aborts.
RECURSIVE LeftFold(_, _, _)
LeftFold(f, es, k) ==
  IF k = 1 THEN es[1] ELSE Apply(f, <<LeftFold(f, es, k - 1), es[k]>>)

C11_ReduceIsLeftFold ==
  \A r \in Runs :
    \A j \in 1..Len(invoked[r]) :
      IsTransformation(r, j, "reduce", "list") =>
        LET f == StepAt(r, j).function
            es == Source(r, j)
            out == Entry(r, j).out
        IN /\ Len(es) = 0 =>
                /\ out.raised = "TypeError"
                /\ out.calls = <<>>
                /\ pc[r] = "raised"
                /\ result[r] = WorkflowRaised("TypeError")
           /\ Len(es) = 1 =>
                (out.raised = "" /\ out.output = es[1] /\ out.calls = <<>>)
           /\ (Len(es) >= 2 /\ out.raised = "") =>
                /\ out.output = LeftFold(f, es, Len(es))
                /\ out.calls =
                     [k \in 1..(Len(es) - 1) |-> <<LeftFold(f, es, k), es[k + 1]>>]

C11_Witness ==
  /\ Len(invoked[1]) >= 1
  /\ IsTransformation(1, 1, "reduce", "list")
  /\ Source(1, 1) = <<PyInt(3), PyInt(1), PyInt(2)>>
  /\ Entry(1, 1).out.raised = ""
  /\ Entry(1, 1).out.output = PyInt(0)
  /\ Len(Entry(1, 1).out.calls) = 2
  /\ Returned(1)

\* C19: a transformation step whose input_field names no entry of the state
\* it is invoked on (no seed input, no earlier step's name) raises KeyError
\* before its function is called even once, and the run aborts with that
\* error and no WorkflowOutput; the missing entry is not read as None.
MissingField(r, j) ==
  /\ StepAt(r, j).kind = "transformation"
  /\ Entry(r, j).state[StepAt(r, j).input_field] = Absent

C19_MissingFieldAborts ==
  \A r \in Runs :
    \A j \in 1..Len(invoked[r]) :
      MissingField(r, j) =>
        /\ Entry(r, j).out.raised = "KeyError"
        /\ Entry(r, j).out.calls = <<>>
        /\ j = Len(invoked[r])
        /\ pc[r] = "raised"
        /\ result[r] = WorkflowRaised("KeyError")
        /\ Len(updates[r]) = j - 1

C19_Witness ==
  /\ Len(invoked[1]) = 2
  /\ MissingField(1, 2)
  /\ StepAt(1, 2).input_field = "xs"
  /\ Len(updates[1]) = 1
  /\ heap[state_manager[1]]["xs"] = Absent
  /\ pc[1] = "raised"

\* C15: the trace record of a step that returned has the kind of the step's
\* variant.  For a function step and a transformation step it has exactly two
\* sub-entries, `inputs` then `output`, carrying the mapping the step selected
\* from the state and the value its function (its transformation) gave, which
\* is the value the step returns as output.  For an agent step its sub-entries
\* are the trace sequence the agent returned, nothing added.
Restriction(state, keys) == [k \in Keys |-> IF k \in keys THEN state[k] ELSE Absent]

Computed(r, j) ==
  IF StepAt(r, j).kind = "function"
  THEN Call(StepAt(r, j).function, Restriction(Entry(r, j).state, StepAt(r, j).inputs))
  ELSE Transform(StepAt(r, j).transformation, StepAt(r, j).function,
                 Entry(r, j).state[StepAt(r, j).input_field]).out

TwoEntries(r, j) ==
  LET step == Entry(r, j).out.step
      selected == IF StepAt(r, j).kind = "function" THEN StepAt(r, j).inputs
                  ELSE {StepAt(r, j).input_field}
  IN /\ step.name = StepAt(r, j).kind
     /\ Len(step.steps) = 2
     /\ step.steps[1].name = "inputs"
     /\ step.steps[1].content = Mapping(Restriction(Entry(r, j).state, selected))
     /\ step.steps[1].content = Mapping(Entry(r, j).out.inputs)
     /\ step.steps[2].name = "output"
     /\ step.steps[2].content = Computed(r, j)
     /\ ValidateOutput(step.steps[2].content) = Entry(r, j).out.output

AgentTrace(r, j) ==
  LET step == Entry(r, j).out.step
      answer == AgentInvoke(StepAt(r, j).agent, Entry(r, j).out.inputs, Entry(r, j).ok)
  IN /\ step.name = "llm"
     /\ step.steps = answer.steps
     /\ \A k \in 1..Len(step.steps) : step.steps[k].name \notin {"inputs", "output"}

C15_TraceShape ==
  \A r \in Runs :
    \A j \in 1..Len(invoked[r]) :
      Entry(r, j).out.raised = "" =>
        /\ StepAt(r, j).kind \in {"function", "transformation"} => TwoEntries(r, j)
        /\ StepAt(r, j).kind = "llm" => AgentTrace(r, j)

C15_Witness ==
  /\ Returned(1)
  /\ Len(invoked[1]) = 3
  /\ StepAt(1, 1).kind = "function"
  /\ StepAt(1, 2).kind = "transformation"
  /\ StepAt(1, 3).kind = "llm"
  /\ result[1].steps[3].name = "llm"
  /\ Len(result[1].steps[3].steps) = 2

\* C13: the `inputs` of a returned WorkflowOutput is the inputs mapping as the
\* caller passed it, key for key and value for value as at the call; this
\* holds also when a step has the name of an input key, so that the state
\* entry under that key was overwritten during the run.
C13_OutputInputsAreCallInputs ==
  \A r \in Runs :
    Returned(r) =>
      /\ result[r].inputs = called_with[r]
      /\ \A j \in 1..Len(updates[r]) :
           called_with[r][updates[r][j].name] = Absent =>
             result[r].inputs[updates[r][j].name] = Absent

C13_Witness ==
  /\ Returned(1)
  /\ \E j \in 1..Len(updates[1]) : updates[1][j].name = "n"
  /\ called_with[1]["n"] = PyInt(1)
  /\ heap[state_manager[1]]["n"] = PyInt(2)
  /\ heap[state_manager[1]]["s"] # Absent
  /\ result[1].inputs["n"] = PyInt(1)

\* C16: in every run the state store is updated exactly once for each step
\* whose invoke returned, under the name of that step and with its output,
\* after that invoke returned and before the next invoke begins; so the state
\* a step is invoked on is the inputs of the call overlaid, in declaration
\* order, with name -> output of every earlier step, the latest write winning.
RECURSIVE Overlay(_, _)
Overlay(r, k) ==
  IF k = 0 THEN called_with[r]
  ELSE [Overlay(r, k - 1) EXCEPT ![StepAt(r, k).name] = Entry(r, k).out.output]

ReturnedInvokes(r) == {j \in 1..Len(invoked[r]) : Entry(r, j).out.raised = ""}

C16_OneUpdatePerReturnedStep ==
  \A r \in Runs :
    /\ Len(updates[r]) =
         Cardinality(ReturnedInvokes(r)) - (IF pc[r] = "update" THEN 1 ELSE 0)
    /\ pc[r] = "invoke" => Len(updates[r]) = Len(invoked[r])
    /\ \A j \in 1..Len(updates[r]) :
         /\ updates[r][j].i = Entry(r, j).i
         /\ updates[r][j].name = StepAt(r, j).name
         /\ updates[r][j].step = Entry(r, j).out
    /\ \A j \in 1..Len(invoked[r]) :
         /\ Entry(r, j).i = j
         /\ Entry(r, j).state = Overlay(r, j - 1)
    /\ state_manager[r] # NoObj =>
         heap[state_manager[r]] = Overlay(r, Len(updates[r]))

C16_Witness ==
  /\ Returned(1)
  /\ Len(updates[1]) = 3
  /\ updates[1][1].name = "s"
  /\ updates[1][2].name = "s"
  /\ updates[1][3].name = "n"
  /\ updates[1][1].step.output # updates[1][2].step.output
  /\ Entry(1, 3).state["s"] = updates[1][2].step.output
  /\ heap[state_manager[1]]["n"] # called_with[1]["n"]

\* C17: the state mapping of a run is changed by the update call of the loop
\* only.  The invoke of a step, of whichever variant, leaves the keys of the
\* state and the value under every key as they were, when it returns and when
\* it raises; and an update changes the entry under the name of the current
\* step and no other.
StateOf(r) == heap[state_manager[r]]

InvokeLeavesState(r) ==
  (pc[r] = "invoke" /\ pc'[r] # "invoke") =>
    /\ Len(invoked'[r]) = Len(invoked[r]) + 1
    /\ state_manager'[r] = state_manager[r]
    /\ heap'[state_manager[r]] = StateOf(r)

OnlyUpdateWrites(r) ==
  (state_manager[r] # NoObj /\ heap'[state_manager[r]] # StateOf(r)) =>
    /\ pc[r] = "update"
    /\ Len(updates'[r]) = Len(updates[r]) + 1
    /\ \A k \in Keys \ {wf.steps[idx[r]].name} :
         heap'[state_manager[r]][k] = StateOf(r)[k]

C17_OnlyUpdateChangesState ==
  [][\A r \in Runs : InvokeLeavesState(r) /\ OnlyUpdateWrites(r)]_vars

C17_Witness ==
  /\ Len(invoked[1]) = 3
  /\ StepAt(1, 1).kind = "transformation"
  /\ StepAt(1, 2).kind = "llm"
  /\ StepAt(1, 3).kind = "function"
  /\ Entry(1, 3).out.raised # ""
  /\ Len(updates[1]) = 2
  /\ StateOf(1) = Entry(1, 3).state
  /\ StateOf(1) # called_with[1]
  /\ pc[1] = "raised"

\* C12: the tool of as_tool has the name, the description and the input
\* schema of the workflow.  Invoked with the inputs of a direct call of invoke
\* on the same workflow (the agents answering alike), it runs the same steps
\* in the same order on the same arguments; when the direct call returns a
\* WorkflowOutput the tool returns exactly its `output` field, and when the
\* direct call raises the tool invocation raises the same error.
Min(a, b) == IF a < b THEN a ELSE b

SameAnswers(r, q) ==
  \A j \in 1..Min(Len(invoked[r]), Len(invoked[q])) : Entry(r, j).ok = Entry(q, j).ok

Ended(r) == pc[r] \in {"returned", "raised", "tool_returned", "tool_raised"}

ThroughTool(r) == tool[r] # NoTool

C12_ToolRunsTheWorkflow ==
  \A r, q \in Runs :
    /\ ThroughTool(r) =>
         /\ tool[r].name = wf.name
         /\ tool[r].description = wf.description
         /\ tool[r].args_schema = wf.inputs
         /\ pc[r] = "tool_returned" => tool_output[r] = result[r].output
         /\ pc[r] = "tool_raised" => (tool_output[r] = Absent /\ result[r].status = "raised")
    /\ ( /\ ThroughTool(r) /\ ~ThroughTool(q)
         /\ pc[r] \in {"tool_returned", "tool_raised"} /\ Ended(q)
         /\ called_with[r] = called_with[q]
         /\ verbose[r] = verbose[q]
         /\ SameAnswers(r, q) )
       => /\ invoked[r] = invoked[q]
          /\ updates[r] = updates[q]
          /\ Returned(q) => (pc[r] = "tool_returned" /\ tool_output[r] = result[q].output)
          /\ result[q].status = "raised" =>
               (pc[r] = "tool_raised" /\ result[r].error = result[q].error)

C12_Witness ==
  /\ ThroughTool(2) /\ ~ThroughTool(1)
  /\ called_with[2] = called_with[1]
  /\ verbose[2] = verbose[1]
  /\ Returned(1)
  /\ pc[2] = "tool_returned"
  /\ Len(invoked[2]) = MaxPairSteps
  /\ StepAt(2, 1).kind = "transformation"
  /\ StepAt(2, 2).kind = "llm"
  /\ tool_output[2] = PyStr(<<"o", "k">>)
  /\ result[1].steps # <<>>

C12_WitnessRaises ==
  /\ ThroughTool(2) /\ ~ThroughTool(1)
  /\ called_with[2] = called_with[1]
  /\ verbose[2] = verbose[1]
  /\ SameAnswers(2, 1)
  /\ pc[1] = "raised"
  /\ pc[2] = "tool_raised"
  /\ result[2].error = "KeyError"

\* C14 as stated: what invoke returns or raises does not depend on the verbose
\* flag.  Two calls on the same workflow definition with the same inputs, the
\* functions and agents behaving alike, one with verbose = true and one with
\* verbose = false, invoke the same steps with the same arguments and end with
\* the same WorkflowOutput or the same error.
C14_VerboseDoesNotMatter ==
  \A r, q \in Runs :
    ( /\ verbose[r] /\ ~verbose[q]
      /\ ~ThroughTool(r) /\ ~ThroughTool(q)
      /\ Ended(r) /\ Ended(q)
      /\ called_with[r] = called_with[q]
      /\ SameAnswers(r, q) )
    => /\ invoked[r] = invoked[q]
       /\ result[r] = result[q]

\* C18: every call of invoke has a state store of its own.  For two calls on
\* one workflow definition, one after the other or interleaved step by step,
\* on two mappings or on the very same mapping: the store of a call is no
\* object of the other call, the state a step is invoked on holds the inputs
\* of its own call overlaid with the outputs of the earlier steps of its own
\* call only, the result of a call is the result the call has when it runs
\* alone, and the mapping of the caller stays as it was passed.
RECURSIVE AloneFrom(_, _, _, _)
AloneFrom(r, j, state, steps) ==
  IF j > Len(wf.steps)
  THEN IF LogRaises(verbose[r], DictGet(state, wf.output))
       THEN WorkflowRaised("ValueError")
       ELSE WorkflowOutput(called_with[r], DictGet(state, wf.output), steps)
  ELSE LET out == StepInvoke(wf.steps[j], state, Entry(r, j).ok, verbose[r])
       IN IF out.raised # "" THEN WorkflowRaised(out.raised)
          ELSE AloneFrom(r, j + 1,
                         WorkflowStateManagerUpdate(state, wf.steps[j].name, out),
                         Append(steps, out.step))

Alone(r) ==
  IF ModelValidate(wf.inputs, called_with[r])
  THEN AloneFrom(r, 1, called_with[r], <<>>)
  ELSE WorkflowRaised("ValidationError")

C18_RunsAreIsolated ==
  \A r \in Runs :
    /\ heap[inputs[r]] = called_with[r]
    /\ state_manager[r] # NoObj =>
         \A q \in Runs : /\ state_manager[r] # inputs[q]
                         /\ q # r => state_manager[r] # state_manager[q]
    /\ \A j \in 1..Len(invoked[r]) : Entry(r, j).state = Overlay(r, j - 1)
    /\ Ended(r) => result[r] = Alone(r)

C18_Witness ==
  /\ inputs[1] = inputs[2]
  /\ pc[1] = "invoke" /\ idx[1] = 2
  /\ pc[2] = "update" /\ idx[2] = 1
  /\ wf.steps[1].name = "n"
  /\ StateOf(1)["n"] = PyInt(2)
  /\ Entry(2, 1).state["n"] = PyInt(1)
  /\ StateOf(2)["n"] = PyInt(1)
  /\ heap[inputs[1]]["n"] = PyInt(1)

C18_WitnessBothReturned ==
  /\ inputs[1] = inputs[2]
  /\ Returned(1) /\ Returned(2)
  /\ Len(updates[1]) = MaxPairSteps
  /\ result[1] = result[2]
  /\ StateOf(1)["n"] = PyInt(3)
  /\ heap[inputs[1]]["n"] = PyInt(1)


====
